---- MODULE Spec2Model ----
(***************************************************************************)
(* A model of generate.js: the static site generator of breadpoets.org.    *)
(*                                                                         *)
(* generateSite() is one async function.  Every `await` is one step of     *)
(* the model; the position of the function is pc.  The file system is     *)
(* the environment: the data directory, the asset root and the images      *)
(* directory are inputs chosen in Init and never changed, the output       *)
(* directory publicDir is state.  Any file-system operation and any        *)
(* template call may throw; a throw transfers control to the catch block.  *)
(***************************************************************************)
EXTENDS Integers, Sequences, FiniteSets, TLC

VARIABLES
    recipesDir,      \* input: entries of data/recipes, in readdir order
    rootFiles,       \* input: names of the files present in the project root
    imagesDir,       \* input: the root images directory (or its absence)
    publicDir,       \* the output directory: path -> content
    pc,              \* position of generateSite
    i,               \* index of the loop the function is in
    sources,         \* template sources read so far (layout, recipe, index)
    templates,       \* the compiled templates, NotCompiled before line 21
    recipeFiles,     \* result of fs.readdir(recipesDir)
    allRecipesData,  \* the records pushed so far, sorted after line 41
    imageFiles,      \* result of fs.readdir(imagesDir)
    console,         \* lines written by console.log / warn / error
    exitCode,        \* Running while the process lives, then 0 or 1
    trace,           \* history: the steps this invocation has completed
    layoutCalls,     \* history: the contexts passed to layoutTemplate
    run,             \* history: number of this invocation
    outputs          \* history: publicDir at the end of each earlier successful run

vars == <<recipesDir, rootFiles, imagesDir, publicDir, pc, i, sources, templates,
          recipeFiles, allRecipesData, imageFiles, console, exitCode, trace,
          layoutCalls, run, outputs>>

inputs == <<recipesDir, rootFiles, imagesDir>>

-----------------------------------------------------------------------------
(* Bounds of the model.                                                    *)

MaxFiles == 2      \* entries in data/recipes
MaxRuns == 2       \* invocations of the generator in one behaviour

-----------------------------------------------------------------------------
(* Values.                                                                 *)

Running == "running"
EmptyObject == [k \in {} |-> ""]     \* the JavaScript object {}
NotCompiled == EmptyObject
EmptyDirectory == <<>>

\* File contents.  A rendered template is the pair of its source and its
\* context, so that rendering is deterministic and injective; a copied or
\* pre-existing file is identified by where its bytes come from.
Html(source, context) == [kind |-> "html", of |-> source, with |-> context]
Bytes(origin) == [kind |-> "bytes", of |-> origin, with |-> EmptyObject]
Directory == [kind |-> "dir", of |-> "", with |-> EmptyObject]

Put(dir, path, content) ==
    [p \in DOMAIN dir \cup {path} |-> IF p = path THEN content ELSE dir[p]]

Restrict(dir, paths) == [p \in paths |-> dir[p]]

Min(a, b) == IF a <= b THEN a ELSE b

-----------------------------------------------------------------------------
(* Paths.  A path below a directory is the tuple of its segments, so that  *)
(* path.join(publicDir, name) is <<name>> and                              *)
(* path.join(publicImagesDir, imgFile) is <<"images", imgFile>>.           *)

Parent(path) == SubSeq(path, 1, Len(path) - 1)

\* A directory listing is well formed when every entry's parent is in it.
WellFormed(paths) == \A p \in paths : Len(p) > 1 => Parent(p) \in paths

-----------------------------------------------------------------------------
(* Records and the data directory.                                         *)
(*                                                                         *)
(* A file name is the sequence of the pieces it is written from, so that   *)
(* recipeFile.endsWith('.jsonld') is a test on its last piece.  A headline *)
(* is a sequence of characters, so that localeCompare is computed from     *)
(* its characters.                                                         *)

Malformed == [malformed |-> TRUE]

Focaccia == [slug |-> "why", headline |-> <<"b">>,
             pageTitle |-> "Focaccia", featuredImage |-> "loaf.png"]
Bagel == [slug |-> "why", headline |-> <<"B">>]
Ciabatta == [slug |-> "index", headline |-> <<"a", "c">>,
             body |-> [text |-> "own body"], recipes |-> <<>>]
Sourdough == [slug |-> "sourdough"]       \* a record without headline

FilePool ==
    { [name |-> <<"focaccia", ".jsonld">>, json |-> Focaccia],
      [name |-> <<"bagel", ".jsonld">>, json |-> Bagel],
      [name |-> <<"ciabatta", ".jsonld">>, json |-> Ciabatta],
      [name |-> <<"sourdough", ".jsonld">>, json |-> Sourdough],
      [name |-> <<"broken", ".jsonld">>, json |-> Malformed],
      [name |-> <<"bagel", ".jsonld", ".bak">>, json |-> Bagel] }

\* The listings readdir can return: up to MaxFiles entries with distinct names.
DataDirs ==
    { d \in UNION { [1..n -> FilePool] : n \in 0..MaxFiles } :
        \A a, b \in DOMAIN d : a # b => d[a].name # d[b].name }

\* String.prototype.endsWith, on a name given by its pieces.
\* Variant: String.prototype.includes in place of endsWith.
EndsWithAnywhere(name, suffix) == \E k \in DOMAIN name : name[k] = suffix
EndsWith(name, suffix) == Len(name) > 0 /\ name[Len(name)] = suffix

\* fs.readJson: the parsed content of the file, or a throw.
ParseFails(entry) == entry.json = Malformed

-----------------------------------------------------------------------------
(* localeCompare and Array.prototype.sort.                                 *)
(*                                                                         *)
(* localeCompare compares by collation: letters first (primary level),     *)
(* case only when the letters are equal (tertiary level, lower case        *)
(* first).  Code-unit order, which puts "B" before "a", is not used.       *)

LowerCase == << "a", "b", "c", "d", "e", "f", "g", "h", "i", "j", "k", "l", "m",
               "n", "o", "p", "q", "r", "s", "t", "u", "v", "w", "x", "y", "z" >>
UpperCase == << "A", "B", "C", "D", "E", "F", "G", "H", "I", "J", "K", "L", "M",
               "N", "O", "P", "Q", "R", "S", "T", "U", "V", "W", "X", "Y", "Z" >>

IsUpper(c) == \E k \in DOMAIN UpperCase : UpperCase[k] = c
Letter(c) == CHOOSE k \in DOMAIN LowerCase : LowerCase[k] = c \/ UpperCase[k] = c

Primary(c) == Letter(c)
Tertiary(c) == IF IsUpper(c) THEN 1 ELSE 0
CodeUnit(c) == IF IsUpper(c) THEN 64 + Letter(c) ELSE 96 + Letter(c)

\* Lexicographic comparison of two sequences of weights: -1, 0 or 1.
Lexicographic(x, y) ==
    LET n == Min(Len(x), Len(y))
        diff == { k \in 1..n : x[k] # y[k] }
    IN  IF diff # {}
        THEN LET d == CHOOSE k \in diff : \A m \in diff : k <= m
             IN  IF x[d] < y[d] THEN -1 ELSE 1
        ELSE IF Len(x) < Len(y) THEN -1
        ELSE IF Len(x) > Len(y) THEN 1
        ELSE 0

PrimaryKey(a) == [k \in DOMAIN a |-> Primary(a[k])]
TertiaryKey(a) == [k \in DOMAIN a |-> Tertiary(a[k])]
CodeUnits(a) == [k \in DOMAIN a |-> CodeUnit(a[k])]

CodeUnitCompare(a, b) == Lexicographic(CodeUnits(a), CodeUnits(b))
LocaleCompare(a, b) ==
    IF Lexicographic(PrimaryKey(a), PrimaryKey(b)) # 0
    THEN Lexicographic(PrimaryKey(a), PrimaryKey(b))
    ELSE Lexicographic(TertiaryKey(a), TertiaryKey(b))

\* ToString(undefined), the argument localeCompare sees for a missing headline.
Undefined == <<"u", "n", "d", "e", "f", "i", "n", "e", "d">>

HasHeadline(r) == "headline" \in DOMAIN r
HeadlineOrUndefined(r) == IF HasHeadline(r) THEN r.headline ELSE Undefined

\* The comparison function of line 41, where it returns.  It throws a
\* TypeError when a.headline is undefined; b.headline may be undefined.
\* Variant: comparison of headlines by code unit (a < b) in place of localeCompare.
CompareByCodeUnit(a, b) == CodeUnitCompare(HeadlineOrUndefined(a), HeadlineOrUndefined(b))
CompareRecipes(a, b) == LocaleCompare(HeadlineOrUndefined(a), HeadlineOrUndefined(b))

\* Which argument of the comparison function an element becomes is up to the
\* engine.  With two or more elements an element without headline may be
\* passed as `a`, and the sort throws; a single such element may also be
\* passed as `b` only, and the sort returns.
SortMayThrow(s) == Len(s) >= 2 /\ \E k \in DOMAIN s : ~HasHeadline(s[k])
SortMayReturn(s) ==
    Len(s) < 2 \/ Cardinality({ k \in DOMAIN s : ~HasHeadline(s[k]) }) <= 1

\* Array.prototype.sort: a stable sort by the comparison function.
Insert(s, x) ==
    LET k == Cardinality({ j \in 1..Len(s) : CompareRecipes(s[j], x) <= 0 })
    IN  SubSeq(s, 1, k) \o <<x>> \o SubSeq(s, k + 1, Len(s))

RECURSIVE SortByHeadline(_)
SortByHeadline(s) ==
    IF s = <<>> THEN <<>>
    ELSE Insert(SortByHeadline(SubSeq(s, 1, Len(s) - 1)), s[Len(s)])

-----------------------------------------------------------------------------
(* Templates.                                                              *)

TemplateNames == <<"layout.hbs", "recipe.hbs", "index.hbs">>
TemplateFiles == [n \in {"layout.hbs", "recipe.hbs", "index.hbs"} |-> "{{" \o n \o "}}"]

\* Handlebars.compile: the compiled template is a function of its source.
Compile(source) == source
\* Calling a compiled template: deterministic in the source and the context.
Render(template, context) == Html(template, context)

IndexTitle == "The Bread Poets' Society: recipes in verse"

\* { ...a, ...b }: the keys of both, b's value where both have the key.
\* Variant: a spread in which the earlier value of a key is kept.
SpreadEarlierWins(a, b) ==
    [k \in DOMAIN a \cup DOMAIN b |-> IF k \in DOMAIN a THEN a[k] ELSE b[k]]
Spread(a, b) ==
    [k \in DOMAIN a \cup DOMAIN b |-> IF k \in DOMAIN b THEN b[k] ELSE a[k]]

\* The context of layoutTemplate for a recipe page (lines 46-50).
\* Variant: { body, recipes, ...recipeData }, the record spread last.
ShellContextRecordWins(recipeData, body, recipes) ==
    SpreadEarlierWins(recipeData, [body |-> body, recipes |-> recipes])
ShellContext(recipeData, body, recipes) ==
    Spread(recipeData, [body |-> body, recipes |-> recipes])

\* The context of layoutTemplate for the index page (lines 59-64).
IndexContext(body, recipes) ==
    [pageTitle |-> IndexTitle, body |-> body, recipes |-> recipes]

PageName(recipeData) == recipeData.slug \o ".html"

-----------------------------------------------------------------------------
(* Static assets.                                                          *)

assetsToCopy ==
    << "bps.css", "CNAME", "robots.txt", "favicon.ico", "bread1.gif",
       "img_4638_small.jpg", "lemony_chickpea.jpg", "pancakes-small.jpg",
       "smack-pie.jpg", "why.html", "colorgame.html" >>

\* The sets of manifest assets the project root may hold.
RootFileChoices == { {}, {"why.html"}, {"bps.css", "why.html"}, {"bps.css", "CNAME"} }

NoImagesDir == [exists |-> FALSE, files |-> <<>>]
ImagesDirChoices ==
    { NoImagesDir, [exists |-> TRUE, files |-> <<"loaf.png">>] }

\* What the output directory may hold before the first invocation.
Stale == Bytes("stale")
PriorOutputs ==
    { EmptyDirectory,
      [p \in {<<"index.html">>, <<"old.html">>, <<"images">>, <<"images", "old.png">>}
         |-> IF p = <<"images">> THEN Directory ELSE Stale] }

-----------------------------------------------------------------------------
(* The state after construction: the process has been started and          *)
(* generateSite has computed its paths (lines 7-11).                       *)

Init ==
    /\ recipesDir \in DataDirs
    /\ rootFiles \in RootFileChoices
    /\ imagesDir \in ImagesDirChoices
    /\ publicDir \in PriorOutputs
    /\ pc = "emptyDir"
    /\ i = 1
    /\ sources = <<>>
    /\ templates = NotCompiled
    /\ recipeFiles = <<>>
    /\ allRecipesData = <<>>
    /\ imageFiles = <<>>
    /\ console = <<>>
    /\ exitCode = Running
    /\ trace = <<>>
    /\ layoutCalls = <<>>
    /\ run = 1
    /\ outputs = <<>>

\* An exception leaves the try block: nothing else of the step takes effect.
Throw(unchanged) == pc' = "catch" /\ UNCHANGED unchanged

Did(step, arg) == trace' = Append(trace, <<step, arg>>)

-----------------------------------------------------------------------------
(* Line 14: await fs.emptyDir(publicDir).  emptyDir removes the entries    *)
(* of the directory one by one; when it fails, any part of them is left.   *)

\* Variant: fs.ensureDir in place of fs.emptyDir.
EmptyDirKeepsContents ==
    /\ pc = "emptyDir"
    /\ pc' = "readTemplates"
    /\ i' = 1
    /\ Did("clear", "public")
    /\ UNCHANGED <<inputs, publicDir, sources, templates, recipeFiles, allRecipesData,
                   imageFiles, console, exitCode, layoutCalls, run, outputs>>

EmptyDir ==
    /\ pc = "emptyDir"
    /\ \/ /\ publicDir' = EmptyDirectory
          /\ pc' = "readTemplates"
          /\ i' = 1
          /\ Did("clear", "public")
       \/ /\ \E kept \in SUBSET DOMAIN publicDir :
                /\ WellFormed(kept)
                /\ publicDir' = Restrict(publicDir, kept)
          /\ Throw(<<i, trace>>)
    /\ UNCHANGED <<inputs, sources, templates, recipeFiles, allRecipesData,
                   imageFiles, console, exitCode, layoutCalls, run, outputs>>

(* Lines 17-19: the three awaited fs.readFile calls, in order.             *)
ReadTemplate ==
    /\ pc = "readTemplates"
    /\ \/ /\ sources' = Append(sources, TemplateFiles[TemplateNames[i]])
          /\ Did("template", TemplateNames[i])
          /\ IF i < Len(TemplateNames)
             THEN i' = i + 1 /\ pc' = pc
             ELSE i' = 1 /\ pc' = "compile"
       \/ Throw(<<i, sources, trace>>)
    /\ UNCHANGED <<inputs, publicDir, templates, recipeFiles, allRecipesData,
                   imageFiles, console, exitCode, layoutCalls, run, outputs>>

(* Lines 21-23: Handlebars.compile of the three sources.                   *)
CompileTemplates ==
    /\ pc = "compile"
    /\ templates' = [layoutTemplate |-> Compile(sources[1]),
                     recipeTemplate |-> Compile(sources[2]),
                     indexTemplate |-> Compile(sources[3])]
    /\ Did("compile", "templates")
    /\ pc' = "readdir"
    /\ UNCHANGED <<inputs, publicDir, i, sources, recipeFiles, allRecipesData,
                   imageFiles, console, exitCode, layoutCalls, run, outputs>>

(* Lines 30-31: await fs.readdir(recipesDir).                              *)
ReadRecipesDir ==
    /\ pc = "readdir"
    /\ \/ /\ recipeFiles' = [k \in DOMAIN recipesDir |-> recipesDir[k].name]
          /\ allRecipesData' = <<>>
          /\ Did("readdir", "recipes")
          /\ i' = 1
          /\ pc' = "readRecipes"
       \/ Throw(<<i, recipeFiles, allRecipesData, trace>>)
    /\ UNCHANGED <<inputs, publicDir, sources, templates, imageFiles, console,
                   exitCode, layoutCalls, run, outputs>>

(* Lines 32-38: one iteration of the loop over recipeFiles, or its end.    *)
ReadRecipe ==
    /\ pc = "readRecipes"
    /\ \/ /\ i > Len(recipeFiles)
          /\ pc' = "sort"
          /\ UNCHANGED <<i, allRecipesData, trace>>
       \/ /\ i <= Len(recipeFiles)
          /\ ~EndsWith(recipeFiles[i], ".jsonld")
          /\ i' = i + 1
          /\ UNCHANGED <<pc, allRecipesData, trace>>
       \/ /\ i <= Len(recipeFiles)
          /\ EndsWith(recipeFiles[i], ".jsonld")
          /\ ~ParseFails(recipesDir[i])
          /\ allRecipesData' = Append(allRecipesData, recipesDir[i].json)
          /\ Did("record", recipeFiles[i][1])
          /\ i' = i + 1
          /\ pc' = pc
       \/ /\ i <= Len(recipeFiles)
          /\ EndsWith(recipeFiles[i], ".jsonld")
          /\ Throw(<<i, allRecipesData, trace>>)
    /\ UNCHANGED <<inputs, publicDir, sources, templates, recipeFiles, imageFiles,
                   console, exitCode, layoutCalls, run, outputs>>

(* Line 41: allRecipesData.sort(...), in place.                            *)
SortRecipes ==
    /\ pc = "sort"
    /\ \/ /\ SortMayReturn(allRecipesData)
          /\ allRecipesData' = SortByHeadline(allRecipesData)
          /\ Did("sort", "headline")
          /\ i' = 1
          /\ pc' = "pages"
       \/ /\ SortMayThrow(allRecipesData)
          /\ Throw(<<i, allRecipesData, trace>>)
    /\ UNCHANGED <<inputs, publicDir, sources, templates, recipeFiles, imageFiles,
                   console, exitCode, layoutCalls, run, outputs>>

(* Lines 44-53: one iteration of the loop over allRecipesData, or its end. *)
(* The item template, the shell template and fs.writeFile may each throw.  *)
WritePage(recipeData) ==
    LET recipeContent == Render(templates.recipeTemplate, recipeData)
        context == ShellContext(recipeData, recipeContent, allRecipesData)
        pageHtml == Render(templates.layoutTemplate, context)
    IN  /\ layoutCalls' = Append(layoutCalls, [page |-> "recipe", data |-> recipeData,
                                                 context |-> context])
        /\ publicDir' = Put(publicDir, <<PageName(recipeData)>>, pageHtml)
        /\ console' = Append(console, <<"Generated", PageName(recipeData)>>)
        /\ Did("page", PageName(recipeData))

\* Variant: the loop may be left after its first iteration.
GeneratePageStopsEarly ==
    /\ pc = "pages"
    /\ \/ /\ i > 1
          /\ pc' = "index"
          /\ UNCHANGED <<i, publicDir, console, layoutCalls, trace>>
       \/ /\ i <= Len(allRecipesData)
          /\ WritePage(allRecipesData[i])
          /\ i' = i + 1
          /\ pc' = pc
       \/ /\ i > Len(allRecipesData)
          /\ pc' = "index"
          /\ UNCHANGED <<i, publicDir, console, layoutCalls, trace>>
    /\ UNCHANGED <<inputs, sources, templates, recipeFiles, allRecipesData, imageFiles,
                   exitCode, run, outputs>>

GeneratePage ==
    /\ pc = "pages"
    /\ \/ /\ i > Len(allRecipesData)
          /\ pc' = "index"
          /\ UNCHANGED <<i, publicDir, console, layoutCalls, trace>>
       \/ /\ i <= Len(allRecipesData)
          /\ WritePage(allRecipesData[i])
          /\ i' = i + 1
          /\ pc' = pc
       \/ /\ i <= Len(allRecipesData)
          /\ Throw(<<i, publicDir, console, layoutCalls, trace>>)
    /\ UNCHANGED <<inputs, sources, templates, recipeFiles, allRecipesData, imageFiles,
                   exitCode, run, outputs>>

(* Lines 58-66: the index page.                                            *)
WriteIndex ==
    LET indexContent == Render(templates.indexTemplate, EmptyObject)
        context == IndexContext(indexContent, allRecipesData)
        indexHtml == Render(templates.layoutTemplate, context)
    IN  /\ layoutCalls' = Append(layoutCalls, [page |-> "index", data |-> EmptyObject,
                                                 context |-> context])
        /\ publicDir' = Put(publicDir, <<"index.html">>, indexHtml)
        /\ console' = Append(console, <<"Generated", "index.html">>)
        /\ Did("index", "index.html")

\* Variant: the index page is skipped when there are no records.
GenerateIndexUnlessEmpty ==
    /\ pc = "index"
    /\ IF allRecipesData = <<>>
       THEN UNCHANGED <<publicDir, console, layoutCalls, trace>>
       ELSE WriteIndex
    /\ pc' = "ensureDir"
    /\ UNCHANGED <<inputs, i, sources, templates, recipeFiles, allRecipesData,
                   imageFiles, exitCode, run, outputs>>

GenerateIndex ==
    /\ pc = "index"
    /\ \/ /\ WriteIndex
          /\ pc' = "ensureDir"
       \/ Throw(<<publicDir, console, layoutCalls, trace>>)
    /\ UNCHANGED <<inputs, i, sources, templates, recipeFiles, allRecipesData,
                   imageFiles, exitCode, run, outputs>>

(* Line 85: await fs.ensureDir(publicImagesDir).                           *)
EnsureImagesDir ==
    /\ pc = "ensureDir"
    /\ \/ /\ publicDir' = IF <<"images">> \in DOMAIN publicDir
                          THEN publicDir
                          ELSE Put(publicDir, <<"images">>, Directory)
          /\ Did("ensureDir", "images")
          /\ i' = 1
          /\ pc' = "assets"
       \/ Throw(<<i, publicDir, trace>>)
    /\ UNCHANGED <<inputs, sources, templates, recipeFiles, allRecipesData,
                   imageFiles, console, exitCode, layoutCalls, run, outputs>>

(* Lines 87-96: one iteration of the loop over assetsToCopy, or its end.   *)
(* fs.pathExists never throws; fs.copy overwrites its destination and may  *)
(* throw.                                                                  *)
\* Variant: fs.copy without the fs.pathExists test, so a missing asset throws.
CopyAssetMissingThrows ==
    /\ pc = "assets"
    /\ \/ /\ i > Len(assetsToCopy)
          /\ pc' = "images"
          /\ UNCHANGED <<i, publicDir, console, trace>>
       \/ /\ i <= Len(assetsToCopy)
          /\ assetsToCopy[i] \in rootFiles
          /\ publicDir' = Put(publicDir, <<assetsToCopy[i]>>, Bytes(assetsToCopy[i]))
          /\ console' = Append(console, <<"Copied", assetsToCopy[i]>>)
          /\ Did("asset", assetsToCopy[i])
          /\ i' = i + 1
          /\ pc' = pc
       \/ /\ i <= Len(assetsToCopy)
          /\ Throw(<<i, publicDir, console, trace>>)
    /\ UNCHANGED <<inputs, sources, templates, recipeFiles, allRecipesData,
                   imageFiles, exitCode, layoutCalls, run, outputs>>

\* Variant: fs.copy with { overwrite: false }.
CopyAssetKeepsExisting ==
    /\ pc = "assets"
    /\ \/ /\ i > Len(assetsToCopy)
          /\ pc' = "images"
          /\ UNCHANGED <<i, publicDir, console, trace>>
       \/ /\ i <= Len(assetsToCopy)
          /\ assetsToCopy[i] \in rootFiles
          /\ publicDir' = IF <<assetsToCopy[i]>> \in DOMAIN publicDir
                          THEN publicDir
                          ELSE Put(publicDir, <<assetsToCopy[i]>>, Bytes(assetsToCopy[i]))
          /\ console' = Append(console, <<"Copied", assetsToCopy[i]>>)
          /\ Did("asset", assetsToCopy[i])
          /\ i' = i + 1
          /\ pc' = pc
       \/ /\ i <= Len(assetsToCopy)
          /\ assetsToCopy[i] \notin rootFiles
          /\ console' = Append(console, <<"Asset not found, skipped", assetsToCopy[i]>>)
          /\ Did("assetMissing", assetsToCopy[i])
          /\ i' = i + 1
          /\ UNCHANGED <<pc, publicDir>>
       \/ /\ i <= Len(assetsToCopy)
          /\ assetsToCopy[i] \in rootFiles
          /\ Throw(<<i, publicDir, console, trace>>)
    /\ UNCHANGED <<inputs, sources, templates, recipeFiles, allRecipesData,
                   imageFiles, exitCode, layoutCalls, run, outputs>>

CopyAsset ==
    /\ pc = "assets"
    /\ \/ /\ i > Len(assetsToCopy)
          /\ pc' = "images"
          /\ UNCHANGED <<i, publicDir, console, trace>>
       \/ /\ i <= Len(assetsToCopy)
          /\ assetsToCopy[i] \in rootFiles
          /\ publicDir' = Put(publicDir, <<assetsToCopy[i]>>, Bytes(assetsToCopy[i]))
          /\ console' = Append(console, <<"Copied", assetsToCopy[i]>>)
          /\ Did("asset", assetsToCopy[i])
          /\ i' = i + 1
          /\ pc' = pc
       \/ /\ i <= Len(assetsToCopy)
          /\ assetsToCopy[i] \notin rootFiles
          /\ console' = Append(console, <<"Asset not found, skipped", assetsToCopy[i]>>)
          /\ Did("assetMissing", assetsToCopy[i])
          /\ i' = i + 1
          /\ UNCHANGED <<pc, publicDir>>
       \/ /\ i <= Len(assetsToCopy)
          /\ assetsToCopy[i] \in rootFiles
          /\ Throw(<<i, publicDir, console, trace>>)
    /\ UNCHANGED <<inputs, sources, templates, recipeFiles, allRecipesData,
                   imageFiles, exitCode, layoutCalls, run, outputs>>

(* Lines 99-100 and 105-107: the test for the root images directory and,   *)
(* when it exists, its listing.                                            *)
ListImages ==
    /\ pc = "images"
    /\ \/ /\ imagesDir.exists
          /\ imageFiles' = imagesDir.files
          /\ Did("imagesList", "images")
          /\ i' = 1
          /\ pc' = "copyImages"
          /\ UNCHANGED console
       \/ /\ ~imagesDir.exists
          /\ console' = Append(console, <<"Root images directory not found", "images">>)
          /\ Did("imagesMissing", "images")
          /\ pc' = "complete"
          /\ UNCHANGED <<i, imageFiles>>
       \/ /\ imagesDir.exists
          /\ Throw(<<i, imageFiles, console, trace>>)
    /\ UNCHANGED <<inputs, publicDir, sources, templates, recipeFiles, allRecipesData,
                   exitCode, layoutCalls, run, outputs>>

(* Lines 101-104: one iteration of the loop over imageFiles, or its end.   *)
CopyImage ==
    /\ pc = "copyImages"
    /\ \/ /\ i > Len(imageFiles)
          /\ pc' = "complete"
          /\ UNCHANGED <<i, publicDir, console, trace>>
       \/ /\ i <= Len(imageFiles)
          /\ publicDir' = Put(publicDir, <<"images", imageFiles[i]>>,
                              Bytes("images/" \o imageFiles[i]))
          /\ console' = Append(console, <<"Copied image", imageFiles[i]>>)
          /\ Did("image", imageFiles[i])
          /\ i' = i + 1
          /\ pc' = pc
       \/ /\ i <= Len(imageFiles)
          /\ Throw(<<i, publicDir, console, trace>>)
    /\ UNCHANGED <<inputs, sources, templates, recipeFiles, allRecipesData,
                   imageFiles, exitCode, layoutCalls, run, outputs>>

(* Line 110: the completion message; generateSite then returns.            *)
Complete ==
    /\ pc = "complete"
    /\ console' = Append(console, <<"Static site generation complete!", "">>)
    /\ Did("complete", "")
    /\ pc' = "returned"
    /\ UNCHANGED <<inputs, publicDir, i, sources, templates, recipeFiles,
                   allRecipesData, imageFiles, exitCode, layoutCalls, run, outputs>>

(* Lines 112-115: the catch block logs the error and exits with status 1.  *)
\* Variant: the catch block exits with status 0.
CatchExitsZero ==
    /\ pc = "catch"
    /\ console' = Append(console, <<"Error during site generation:", "error">>)
    /\ exitCode' = 0
    /\ pc' = "exited"
    /\ UNCHANGED <<inputs, publicDir, i, sources, templates, recipeFiles,
                   allRecipesData, imageFiles, trace, layoutCalls, run, outputs>>

\* Variant: the catch block empties the output directory before exiting.
CatchCleansUp ==
    /\ pc = "catch"
    /\ console' = Append(console, <<"Error during site generation:", "error">>)
    /\ exitCode' = 1
    /\ publicDir' = EmptyDirectory
    /\ pc' = "exited"
    /\ UNCHANGED <<inputs, i, sources, templates, recipeFiles,
                   allRecipesData, imageFiles, trace, layoutCalls, run, outputs>>

Catch ==
    /\ pc = "catch"
    /\ console' = Append(console, <<"Error during site generation:", "error">>)
    /\ exitCode' = 1
    /\ pc' = "exited"
    /\ UNCHANGED <<inputs, publicDir, i, sources, templates, recipeFiles,
                   allRecipesData, imageFiles, trace, layoutCalls, run, outputs>>

(* Line 118: the promise of generateSite() settles with nothing pending,   *)
(* so the process ends with status 0.                                      *)
ProcessExit ==
    /\ pc = "returned"
    /\ exitCode' = 0
    /\ pc' = "exited"
    /\ UNCHANGED <<inputs, publicDir, i, sources, templates, recipeFiles,
                   allRecipesData, imageFiles, console, trace, layoutCalls, run, outputs>>

(* Line 118 again: the generator is started anew on the same inputs and    *)
(* the output directory the previous process left.                         *)
Invoke ==
    /\ pc = "exited"
    /\ run < MaxRuns
    /\ run' = run + 1
    /\ outputs' = IF exitCode = 0 THEN Append(outputs, publicDir) ELSE outputs
    /\ pc' = "emptyDir"
    /\ i' = 1
    /\ sources' = <<>>
    /\ templates' = NotCompiled
    /\ recipeFiles' = <<>>
    /\ allRecipesData' = <<>>
    /\ imageFiles' = <<>>
    /\ console' = <<>>
    /\ exitCode' = Running
    /\ trace' = <<>>
    /\ layoutCalls' = <<>>
    /\ UNCHANGED <<inputs, publicDir>>

Next ==
    \/ EmptyDir
    \/ ReadTemplate
    \/ CompileTemplates
    \/ ReadRecipesDir
    \/ ReadRecipe
    \/ SortRecipes
    \/ GeneratePage
    \/ GenerateIndex
    \/ EnsureImagesDir
    \/ CopyAsset
    \/ ListImages
    \/ CopyImage
    \/ Complete
    \/ Catch
    \/ ProcessExit
    \/ Invoke

Spec == Init /\ [][Next]_vars

-----------------------------------------------------------------------------
(* Vocabulary of the properties.                                           *)

Succeeded == pc = "exited" /\ exitCode = 0
Failed == pc = "exited" /\ exitCode = 1

Range(f) == { f[k] : k \in DOMAIN f }
CountIn(t, steps) == Cardinality({ k \in DOMAIN t : t[k][1] \in steps })
Count(steps) == CountIn(trace, steps)
LastStep == trace[Len(trace)][1]
ReportedIn(lines) ==
    \E k \in DOMAIN lines : lines[k][1] = "Static site generation complete!"

\* The entries of the data directory whose name ends with .jsonld, and their
\* records in listing order.
IsDataFile(name) == name[Len(name)] = ".jsonld"
DataEntries == { k \in DOMAIN recipesDir : IsDataFile(recipesDir[k].name) }
DataFiles == SelectSeq(recipesDir, LAMBDA e : IsDataFile(e.name))
DataRecords == [k \in DOMAIN DataFiles |-> DataFiles[k].json]
Occurrences(seq, x) == Cardinality({ k \in DOMAIN seq : seq[k] = x })

\* The paths a successful build on the inputs writes.
SuccessPaths ==
    { <<PageName(recipesDir[e].json)>> : e \in DataEntries }
    \cup { <<"index.html">>, <<"images">> }
    \cup { <<a>> : a \in rootFiles \cap Range(assetsToCopy) }
    \cup (IF imagesDir.exists
          THEN { <<"images", imagesDir.files[k]>> : k \in DOMAIN imagesDir.files }
          ELSE {})
SuccessFiles == SuccessPaths \ { <<"images">> }

\* The paths the completed steps of this invocation have written.
PathOf(event) ==
    CASE event[1] \in {"page", "index", "asset"} -> <<event[2]>>
      [] event[1] = "ensureDir" -> <<"images">>
      [] event[1] = "image" -> <<"images", event[2]>>
Written ==
    { PathOf(trace[k]) :
        k \in { n \in DOMAIN trace :
                  trace[n][1] \in {"page", "index", "asset", "ensureDir", "image"} } }

\* No data file is malformed: a successful build on the inputs exists.
Buildable == \A e \in DataEntries : ~ParseFails(recipesDir[e])

Files == { p \in DOMAIN publicDir : publicDir[p].kind # "dir" }
Pages == { p \in DOMAIN publicDir : publicDir[p].kind = "html" }

-----------------------------------------------------------------------------
(* C1.  The steps of a run occur in the order clear, templates, records,   *)
(* sort, record pages (in sorted order), index.html, manifest assets,      *)
(* images, completion; a step of one stage is taken only when every        *)
(* earlier stage has finished, and completion is reported only when all    *)
(* stages have.  The steps of a stage all precede those of a later stage   *)
(* (first conjunct), so a stage that is complete in the trace was          *)
(* complete before the first step of any later stage (second conjunct).    *)

Rank(step) ==
    CASE step = "clear" -> 1
      [] step \in {"template", "compile"} -> 2
      [] step \in {"readdir", "record"} -> 3
      [] step = "sort" -> 4
      [] step = "page" -> 5
      [] step = "index" -> 6
      [] step \in {"ensureDir", "asset", "assetMissing"} -> 7
      [] step \in {"imagesList", "imagesMissing", "image"} -> 8
      [] step = "complete" -> 9

StageDone(t, r) ==
    CASE r = 1 -> CountIn(t, {"clear"}) = 1
      [] r = 2 -> CountIn(t, {"template"}) = 3 /\ CountIn(t, {"compile"}) = 1
      [] r = 3 -> /\ CountIn(t, {"readdir"}) = 1
                  /\ CountIn(t, {"record"}) = Cardinality(DataEntries)
      [] r = 4 -> CountIn(t, {"sort"}) = 1
      [] r = 5 -> CountIn(t, {"page"}) = Cardinality(DataEntries)
      [] r = 6 -> CountIn(t, {"index"}) = 1
      [] r = 7 -> /\ CountIn(t, {"ensureDir"}) = 1
                  /\ CountIn(t, {"asset", "assetMissing"}) = Len(assetsToCopy)
      [] r = 8 -> \/ CountIn(t, {"imagesMissing"}) = 1
                  \/ /\ CountIn(t, {"imagesList"}) = 1
                     /\ CountIn(t, {"image"}) = Len(imagesDir.files)

PageSteps == SelectSeq(trace, LAMBDA e : e[1] = "page")

C1_StepOrder ==
    /\ \A k \in 1..(Len(trace) - 1) : Rank(trace[k][1]) <= Rank(trace[k + 1][1])
    /\ \A q \in { Rank(trace[k][1]) : k \in DOMAIN trace } :
          \A r \in 1..(q - 1) : StageDone(trace, r)
    /\ \A n \in DOMAIN PageSteps :
          /\ n <= Len(allRecipesData)
          /\ PageSteps[n][2] = PageName(allRecipesData[n])
    /\ ReportedIn(console) =>
          /\ LastStep = "complete"
          /\ \A r \in 1..8 : StageDone(trace, r)

C1_Witness ==
    /\ Succeeded
    /\ Len(allRecipesData) = 2
    /\ rootFiles # {}
    /\ imagesDir.exists

-----------------------------------------------------------------------------
(* C2.  Once a step has thrown, the run takes no further step: control     *)
(* goes to the catch block, which exits with status 1 without touching     *)
(* the output directory and without reporting completion; the failed       *)
(* step is not counted as done, and the dead process changes nothing       *)
(* until the generator is started anew.                                    *)

C2_FailureIsFinal ==
    [][ /\ (pc # "catch" /\ pc' = "catch") =>
              /\ trace' = trace
              /\ ~ReportedIn(console')
        /\ pc = "catch" =>
              /\ pc' = "exited"
              /\ exitCode' = 1
              /\ publicDir' = publicDir
              /\ trace' = trace
              /\ ~ReportedIn(console')
        /\ Failed =>
              /\ publicDir' = publicDir
              /\ run' = run + 1 ]_vars

C2_Witness == Failed /\ Count({"page"}) >= 1 /\ Count({"index"}) = 0

-----------------------------------------------------------------------------
(* C3.  Every call of the shell template in one run gets the same          *)
(* `recipes`: all loaded records, in ascending locale order of headline.   *)

C3_NavigationSorted ==
    \A k \in DOMAIN layoutCalls :
        LET nav == layoutCalls[k].context.recipes
        IN  /\ nav = layoutCalls[1].context.recipes
            /\ Len(nav) = Cardinality(DataEntries)
            /\ \A e \in DataEntries : \E n \in DOMAIN nav : nav[n] = recipesDir[e].json
            /\ \A a, b \in DOMAIN nav :
                  (a < b /\ HasHeadline(nav[a]) /\ HasHeadline(nav[b]))
                      => LocaleCompare(nav[a].headline, nav[b].headline) <= 0

C3_Witness ==
    /\ Succeeded
    /\ Len(layoutCalls) = 3
    /\ DataRecords # allRecipesData
    /\ \A k \in DOMAIN allRecipesData : HasHeadline(allRecipesData[k])

-----------------------------------------------------------------------------
(* C4.  The shell context of a record page has every field of the record   *)
(* with the record's value, except body, which is the rendered item        *)
(* template, and recipes, which is the sorted collection; the shell        *)
(* context of the listing page has the fixed pageTitle.                    *)

C4_ShellContext ==
    \A k \in DOMAIN layoutCalls :
        LET call == layoutCalls[k]
        IN  IF call.page = "recipe"
            THEN /\ \A f \in DOMAIN call.data \ {"body", "recipes"} :
                       f \in DOMAIN call.context /\ call.context[f] = call.data[f]
                 /\ call.context.body = Html(TemplateFiles["recipe.hbs"], call.data)
                 /\ call.context.recipes = allRecipesData
                 /\ call.data = allRecipesData[k]
            ELSE call.context.pageTitle = IndexTitle

C4_Witness ==
    /\ \E k \in DOMAIN layoutCalls : layoutCalls[k].data = Ciabatta
    /\ \E k \in DOMAIN layoutCalls : layoutCalls[k].data = Focaccia
    /\ \E k \in DOMAIN layoutCalls : layoutCalls[k].page = "index"

-----------------------------------------------------------------------------
(* C5.  Each directory entry whose name ends with .jsonld yields exactly   *)
(* one record and one written record page; no other entry yields any.      *)

C5_OneRecordPerDataFile ==
    /\ pc = "sort" => allRecipesData = DataRecords
    /\ Count({"sort"}) = 1 =>
          /\ Len(allRecipesData) = Cardinality(DataEntries)
          /\ \A r \in Range(DataRecords) \cup Range(allRecipesData) :
                Occurrences(allRecipesData, r) = Occurrences(DataRecords, r)
    /\ Succeeded =>
          /\ Len(PageSteps) = Cardinality(DataEntries)
          /\ \A n \in DOMAIN PageSteps : PageSteps[n][2] = PageName(allRecipesData[n])

C5_Witness ==
    /\ Succeeded
    /\ Len(recipesDir) = 2
    /\ Cardinality(DataEntries) = 1

-----------------------------------------------------------------------------
(* C6.  After a successful build the output directory holds exactly the    *)
(* paths the inputs determine and nothing of what it held before, and it   *)
(* equals the output of every earlier successful build on the same inputs. *)

C6_OutputFromInputsOnly ==
    Succeeded =>
        /\ DOMAIN publicDir = SuccessPaths
        /\ \A p \in DOMAIN publicDir : publicDir[p] # Stale
        /\ \A k \in DOMAIN outputs : outputs[k] = publicDir

C6_Witness ==
    /\ Succeeded
    /\ run = 2
    /\ Len(outputs) = 1
    /\ Len(allRecipesData) = 2
    /\ rootFiles # {}

-----------------------------------------------------------------------------
(* C7.  A manifest asset absent from the project root never makes the      *)
(* build fail: it yields a warning only, every present asset is copied,    *)
(* and the images step follows.                                            *)

C7_MissingAssetsTolerated ==
    /\ (/\ pc = "catch"
        /\ trace # <<>>
        /\ LastStep \in {"ensureDir", "asset", "assetMissing"}
        /\ i <= Len(assetsToCopy)) => assetsToCopy[i] \in rootFiles
    /\ (pc \in {"images", "copyImages", "complete", "returned"} \/ Succeeded) =>
          \A k \in DOMAIN assetsToCopy :
              LET asset == assetsToCopy[k]
              IN  IF asset \in rootFiles
                  THEN /\ <<asset>> \in DOMAIN publicDir
                       /\ publicDir[<<asset>>] = Bytes(asset)
                       /\ <<"Copied", asset>> \in Range(console)
                       /\ <<"Asset not found, skipped", asset>> \notin Range(console)
                  ELSE /\ <<"Asset not found, skipped", asset>> \in Range(console)
                       /\ <<"Copied", asset>> \notin Range(console)
                       /\ <<asset>> \in DOMAIN publicDir => publicDir[<<asset>>] # Bytes(asset)
    /\ Succeeded =>
          /\ ReportedIn(console)
          /\ Count({"imagesList", "imagesMissing"}) = 1

C7_Witness ==
    /\ Succeeded
    /\ rootFiles = {"bps.css", "CNAME"}
    /\ imagesDir.exists
    /\ <<"images", "loaf.png">> \in DOMAIN publicDir

-----------------------------------------------------------------------------
(* C8.  With an empty data directory the build does not fail for want of   *)
(* records, and a successful build writes exactly one page, index.html;    *)
(* the other files of the output are the manifest assets present and the   *)
(* images.                                                                 *)

C8_EmptyDataDirectory ==
    Len(recipesDir) = 0 =>
        /\ (pc = "catch" /\ trace # <<>>) => LastStep # "readdir"
        /\ Succeeded =>
              /\ Pages = { <<"index.html">> }
              /\ Files = { <<"index.html">> }
                         \cup { <<a>> : a \in rootFiles }
                         \cup { <<"images", imagesDir.files[k]>> : k \in DOMAIN imagesDir.files }

C8_Witness ==
    /\ Succeeded
    /\ Len(recipesDir) = 0
    /\ rootFiles # {}
    /\ imagesDir.exists

\* The claim as written: index.html is the only output file.
C8_OnlyIndexHtml ==
    (Succeeded /\ Len(recipesDir) = 0) => Files = { <<"index.html">> }

-----------------------------------------------------------------------------
(* C9.  A failed build cleans nothing up: every path written by a step     *)
(* completed before the failure is still in the output directory.          *)

C9_PartialOutputKept ==
    Failed =>
        /\ Written \subseteq DOMAIN publicDir
        /\ \A p \in Written : publicDir[p] # Stale

C9_Witness ==
    /\ Failed
    /\ Buildable
    /\ Written # {}
    /\ Written # SuccessPaths

\* The claim as written: after a failure the output directory holds none or
\* all of the files of a successful build.
C9_NoPartialOutput ==
    (Failed /\ Buildable) =>
        LET held == { p \in SuccessFiles :
                        p \in DOMAIN publicDir /\ publicDir[p] # Stale }
        IN  held = {} \/ held = SuccessFiles

-----------------------------------------------------------------------------
(* C10.  After a successful build every file of the output root holds      *)
(* what the latest step targeting its name wrote: a present manifest       *)
(* asset's copy, else the listing page for index.html, else the page of    *)
(* the last record of the sorted collection with that page name.  So the   *)
(* record pages number as many as the records only when the slugs are      *)
(* pairwise distinct and meet neither index.html nor a copied asset.       *)

LayoutSource == TemplateFiles["layout.hbs"]
PageOf(k) == Html(LayoutSource, layoutCalls[k].context)
RecordsNamed(name) ==
    { k \in DOMAIN allRecipesData : PageName(allRecipesData[k]) = name }
LastNamed(name) ==
    CHOOSE k \in RecordsNamed(name) : \A n \in RecordsNamed(name) : n <= k
RecordPageFiles ==
    { p \in DOMAIN publicDir :
        \E k \in DOMAIN allRecipesData :
            p = <<PageName(allRecipesData[k])>> /\ publicDir[p] = PageOf(k) }

C10_LastWriterWins ==
    Succeeded =>
        /\ \A p \in DOMAIN publicDir :
              Len(p) = 1 /\ p # <<"images">> =>
                  IF p[1] \in rootFiles
                  THEN publicDir[p] = Bytes(p[1])
                  ELSE IF p = <<"index.html">>
                  THEN publicDir[p] = PageOf(Len(layoutCalls))
                  ELSE /\ RecordsNamed(p[1]) # {}
                       /\ publicDir[p] = PageOf(LastNamed(p[1]))
        /\ Cardinality(RecordPageFiles) = Len(allRecipesData) <=>
              /\ \A a, b \in DOMAIN allRecipesData :
                    a # b => allRecipesData[a].slug # allRecipesData[b].slug
              /\ \A a \in DOMAIN allRecipesData :
                    /\ allRecipesData[a].slug # "index"
                    /\ PageName(allRecipesData[a]) \notin rootFiles

C10_Witness ==
    /\ Succeeded
    /\ allRecipesData = <<Focaccia, Bagel>>
    /\ "why.html" \notin rootFiles
    /\ publicDir[<<"why.html">>].with.headline = Bagel.headline

====
